---------------------------- MODULE Spec2Model ----------------------------
(***************************************************************************)
(* A model of automat.py, the batch media-refinement tool: the bitrate     *)
(* policy, the ffmpeg command builder, the per-file refinement             *)
(* (process_video, process_image, move_to_trash), the directory walk       *)
(* (refine_recursively) and the dispatch in main.                          *)
(*                                                                         *)
(* File names are sequences of one-character strings so that Path.stem and *)
(* str.endswith are computed, not assumed.  External programs (file,       *)
(* ffprobe, ffmpeg, sips, osascript) are the environment: their exit       *)
(* status and their effect on the file system are chosen                   *)
(* nondeterministically.  ffprobe is assumed to print well-formed JSON     *)
(* whenever it exits with status 0.                                        *)
(***************************************************************************)
EXTENDS Integers, Sequences, FiniteSets, TLC

VARIABLES
    codec,          \* args.c
    fmt,            \* args.f, as a sequence of characters
    USE_GPU,        \* args.g
    TRASH_MODE,     \* args.t
    DRY_RUN,        \* args.n
    SUFFIX,         \* args.suffix, as a sequence of characters
    tree,           \* the directory's entries, in the order rglob yields them
    source,         \* args.source: DIR, a file name, or a name that does not exist
    fs,             \* file name -> size in bytes, -1 when the file does not exist
    pc,             \* the program's position
    walkIdx,        \* refine_recursively: index of the next rglob entry
    files,          \* refine_recursively: the (path, kind) candidates
    idx,            \* refine_recursively: index of the candidate being processed
    proc,           \* refine_recursively: processed count
    fail,           \* refine_recursively: failed count
    cur,            \* the (path, kind) being refined, or refined last
    info,           \* its get_video_info result
    new_br,         \* its calculate_optimal_bitrate result
    cmd,            \* the command built for it
    rc,             \* returncode of its encoder / converter run
    report,         \* the sizes process_* reports for it: <<orig_sz, new_sz>>
    exitCode,       \* the process's exit status, -1 while running
    results,        \* history: what each process_* call of the walk returned
    refined,        \* history: the paths handed to process_video / process_image
    disposalCalls,  \* history: the paths handed to move_to_trash
    executed,       \* history: the external programs really executed
    failedRuns,     \* the programs run for the current file that returned non-zero
    dryLog          \* history: the "[DRY RUN] Would ..." lines

vars == <<codec, fmt, USE_GPU, TRASH_MODE, DRY_RUN, SUFFIX, tree, source, fs,
          pc, walkIdx, files, idx, proc, fail, cur, info, new_br, cmd, rc,
          report, exitCode, results, refined, disposalCalls, executed,
          failedRuns, dryLog>>

---------------------------------------------------------------------------
(* Bounds of the model. *)

\* The largest number of entries the walked directory holds.
MaxEntries == 3

---------------------------------------------------------------------------
(* Strings and paths. *)

\* str.endswith
EndsWith(s, suf) ==
    /\ Len(suf) <= Len(s)
    /\ SubSeq(s, Len(s) - Len(suf) + 1, Len(s)) = suf

\* str.rfind("."), 1-based, 0 when there is none
LastDot(name) ==
    LET dots == {i \in 1..Len(name) : name[i] = "."}
    IN  IF dots = {} THEN 0 ELSE CHOOSE i \in dots : \A j \in dots : j <= i

\* pathlib's PurePath.stem: the name up to its last dot, unless that dot is
\* the first or the last character
Stem(name) ==
    LET j == LastDot(name)
    IN  IF 1 < j /\ j < Len(name) THEN SubSeq(name, 1, j - 1) ELSE name

\* src.parent / f"{src.stem}{SUFFIX}.{ext}"
OutputPath(src, suffix, ext) == Stem(src) \o suffix \o <<".">> \o ext

---------------------------------------------------------------------------
(* The files of the model. *)

A_MOV    == <<"a", ".", "m", "o", "v">>
B_MP4    == <<"b", ".", "m", "p", "4">>
C_MKV    == <<"c", ".", "m", "k", "v">>
A_RE_MOV == <<"a", "-", "r", "e", ".", "m", "o", "v">>
P_PNG    == <<"p", ".", "p", "n", "g">>
SUB      == <<"s", "u", "b">>
\* a source name that no file has
NO_FILE  == <<"x", ".", "m", "o", "v">>
\* the source that is the directory itself
DIR      == <<".">>

Universe == {A_MOV, B_MP4, C_MKV, A_RE_MOV, P_PNG, SUB}

MOV  == <<"m", "o", "v">>
MP4  == <<"m", "p", "4">>
MKV  == <<"m", "k", "v">>
WEBM == <<"w", "e", "b", "m">>
HEIC == <<"h", "e", "i", "c">>

Suffixes == {<<"-", "r", "e">>}

\* Every path the run can touch: the entries and their predicted outputs.
Paths ==
    Universe \cup {NO_FILE}
        \cup {OutputPath(n, s, e) : n \in Universe, s \in Suffixes,
                                    e \in {MOV, MP4, MKV, WEBM, HEIC}}

\* What `file --mime-type -b` prints for a file, as <<type, "/", subtype>>.
MimeType(n) ==
    CASE n \in {A_MOV, A_RE_MOV} -> <<"video", "/", "quicktime">>
      [] n = B_MP4               -> <<"video", "/", "mp4">>
      [] n = C_MKV               -> <<"video", "/", "x-matroska">>
      [] n = P_PNG               -> <<"image", "/", "png">>
      [] OTHER                   -> <<"inode", "/", "directory">>

\* Path.is_file: an existing entry that is not a directory
IsFile(n) == n \in DOMAIN fs /\ fs[n] >= 0 /\ n # SUB

\* Path.exists
Exists(n) == n \in DOMAIN fs /\ fs[n] >= 0

StartsWith(s, prefix) ==
    Len(prefix) <= Len(s) /\ SubSeq(s, 1, Len(prefix)) = prefix

---------------------------------------------------------------------------
(* run_command: under DRY_RUN nothing is executed, the command is logged   *)
(* and a CompletedProcess with returncode 0 and empty stdout is returned.  *)

\* variant: a run_command without the dry-run interception
RunsForRealAlways == TRUE

\* run_command executes the command unless DRY_RUN is set

RunsForReal == ~DRY_RUN

\* the stdout run_command returns for a command that would print `out`
Stdout(out) == IF RunsForReal THEN out ELSE <<>>

\* what a run_command call adds to the histories
Ran(tool, arg) ==
    IF RunsForReal
        THEN executed \cup {<<tool, arg>>}
        ELSE executed

Logged(tool, arg) ==
    IF RunsForReal
        THEN dryLog
        ELSE dryLog \cup {<<tool, arg>>}

is_video_file(path) ==
    IsFile(path) /\ StartsWith(Stdout(MimeType(path)), <<"video", "/">>)

is_image_file(path) ==
    IsFile(path) /\ StartsWith(Stdout(MimeType(path)), <<"image", "/">>)

\* the `file` runs classifying `path` makes: none for a non-file
ClassifyRan(path) ==
    IF IsFile(path) THEN Ran("file", path) ELSE executed

ClassifyLogged(path) ==
    IF IsFile(path) THEN Logged("file", path) ELSE dryLog

---------------------------------------------------------------------------
(* calculate_optimal_bitrate.  The duration, a float in the code, is the   *)
(* rational durN / durD here; int(x) truncates, and round() rounds half to *)
(* even.                                                                   *)

\* variant: the top tier entered only above 8,294,400 pixels
TierCeilingStrict(pix) ==
    IF pix > 8294400 THEN 6000000
    ELSE IF pix > 2073600 THEN 4000000
    ELSE IF pix > 921600 THEN 2500000
    ELSE 1200000

\* base, by pix = w * h
TierCeiling(pix) ==
    IF pix >= 8294400 THEN 6000000
    ELSE IF pix > 2073600 THEN 4000000
    ELSE IF pix > 921600 THEN 2500000
    ELSE 1200000

\* int(int(size * 8 / dur) * 0.8), for dur > 0
SizeTarget(size, durN, durD) == ((((size * 8) * durD) \div durN) * 4) \div 5

\* the value before the floor and the quantization
RawTarget(w, h, curr, size, durN, durD) ==
    LET base   == TierCeiling(w * h)
        chosen == IF (IF curr # 0 THEN curr ELSE base) < base
                     THEN (IF curr # 0 THEN curr ELSE base)
                     ELSE base
        targ   == SizeTarget(size, durN, durD)
    IN  IF durN > 0 /\ 0 < targ /\ targ < chosen THEN targ ELSE chosen

Max(a, b) == IF a >= b THEN a ELSE b

\* round(x / step) * step for x >= 0, Python 3 rounding (half to even)
RoundToStep(x, step) ==
    LET q == x \div step
        r == x % step
    IN  IF 2 * r < step THEN q * step
        ELSE IF 2 * r > step THEN (q + 1) * step
        ELSE IF q % 2 = 0 THEN q * step ELSE (q + 1) * step

\* variant: the quantization without the floor
FloorAndQuantizeNoFloor(raw) == RoundToStep(raw, 100000)

\* chosen = max(chosen, 100_000); round(chosen / 100_000) * 100_000
FloorAndQuantize(raw) == RoundToStep(Max(raw, 100000), 100000)

calculate_optimal_bitrate(w, h, curr, size, durN, durD) ==
    FloorAndQuantize(RawTarget(w, h, curr, size, durN, durD))

---------------------------------------------------------------------------
(* build_ffmpeg_command: the codec options as the tokens of vopt.split(),  *)
(* the predicted output, and whether the codec was accepted (sys.exit(1)   *)
(* otherwise).  USE_GPU is not read.                                       *)

ValidCodecs == {"h264", "hevc", "av1"}

CodecOptions(c, bitrate) ==
    LET kb == ToString(bitrate \div 1024) \o "k"
    IN  CASE c = "h264" -> <<"-c:v", "h264_videotoolbox", "-b:v", kb, "-tag:v", "avc1">>
          [] c = "hevc" -> <<"-c:v", "hevc_videotoolbox", "-b:v", kb, "-tag:v", "hvc1">>
          [] c = "av1"  -> <<"-c:v", "libaom-av1", "-crf", "30", "-b:v", "0",
                             "-strict", "experimental">>
          [] OTHER      -> <<>>

VideoOptions(c, f, bitrate) ==
    LET vopt == CodecOptions(c, bitrate)
    IN  IF f = MKV THEN vopt \o <<"-f", "matroska">>
        ELSE IF f = WEBM
            THEN IF c # "av1"
                    THEN <<"-c:v", "libvpx-vp9", "-crf", "30", "-b:v", "0", "-f", "webm">>
                    ELSE vopt \o <<"-f", "webm">>
        ELSE vopt

build_ffmpeg_command(src, c, f, bitrate) ==
    [ok   |-> c \in ValidCodecs,
     tool |-> "ffmpeg",
     pre  |-> <<"-hwaccel", "videotoolbox", "-i">>,
     src  |-> src,
     vopt |-> VideoOptions(c, f, bitrate),
     post |-> <<"-vf", "scale=trunc(iw/2)*2:trunc(ih/2)*2", "-c:a", "aac",
                "-b:a", "128k", "-pix_fmt", "yuv420p", "-y">>,
     out  |-> OutputPath(src, SUFFIX, f)]

\* process_image's command
SipsCommand(src) ==
    [ok   |-> TRUE,
     tool |-> "sips",
     pre  |-> <<"-s", "format", "heic">>,
     src  |-> src,
     vopt |-> <<>>,
     post |-> <<"--out">>,
     out  |-> OutputPath(src, SUFFIX, HEIC)]

NoCommand ==
    [ok |-> TRUE, tool |-> "", pre |-> <<>>, src |-> <<>>, vopt |-> <<>>,
     post |-> <<>>, out |-> <<>>]

---------------------------------------------------------------------------
(* The state after argument parsing. *)

Range(s) == {s[i] : i \in 1..Len(s)}

\* the directory listings: up to MaxEntries distinct entries, in any order
Listings ==
    UNION {{t \in [1..n -> Universe] : \A i, j \in 1..n : t[i] = t[j] => i = j}
           : n \in 0..MaxEntries}

\* the configurations a run of the model starts from
RunCodecs == {"hevc", "vp8"}

NoInfo == [w |-> 0, h |-> 0, durN |-> 0, durD |-> 1, br |-> 0, sz |-> 0]

NoFile == [path |-> <<>>, kind |-> ""]

\* the file system a run finds: the listed entries exist, nothing else does
InitialFs(t) ==
    [p \in Paths |-> IF p \in Range(t) THEN 1000000 * Len(p) ELSE -1]

\* the variables main and refine_recursively start from
Blank ==
    /\ walkIdx = 1
    /\ files = <<>>
    /\ idx = 1
    /\ proc = 0
    /\ fail = 0
    /\ new_br = 0
    /\ cmd = NoCommand
    /\ rc = 0
    /\ report = <<0, 0>>
    /\ exitCode = -1
    /\ results = <<>>
    /\ refined = <<>>
    /\ disposalCalls = {}
    /\ executed = {}
    /\ failedRuns = {}
    /\ dryLog = {}

Init ==
    /\ codec \in RunCodecs
    /\ fmt = MOV
    /\ USE_GPU = FALSE
    /\ TRASH_MODE \in BOOLEAN
    /\ DRY_RUN \in BOOLEAN
    /\ SUFFIX \in Suffixes
    /\ tree \in Listings
    /\ source \in {DIR, NO_FILE} \cup (Range(tree) \ {SUB})
    /\ fs = InitialFs(tree)
    /\ pc = "main"
    /\ cur = NoFile
    /\ info = NoInfo
    /\ Blank

config == <<codec, fmt, USE_GPU, TRASH_MODE, DRY_RUN, SUFFIX, tree, source>>

locals == <<cur, info, new_br, cmd, rc, report>>

---------------------------------------------------------------------------
(* main: the dispatch on the source. *)

Exit(code) ==
    /\ pc' = "exit"
    /\ exitCode' = code

Main ==
    /\ pc = "main"
    /\ IF source = DIR
         THEN /\ pc' = "walk"
              /\ UNCHANGED <<exitCode, cur, refined, executed, dryLog>>
       ELSE IF ~Exists(source)
         THEN /\ Exit(1)
              /\ UNCHANGED <<cur, refined, executed, dryLog>>
       ELSE /\ executed' = ClassifyRan(source)
            /\ dryLog' = ClassifyLogged(source)
            /\ IF is_video_file(source)
                 THEN /\ cur' = [path |-> source, kind |-> "video"]
                      /\ refined' = Append(refined, source)
                      /\ pc' = "probe"
                      /\ UNCHANGED exitCode
               ELSE IF is_image_file(source)
                 THEN /\ cur' = [path |-> source, kind |-> "image"]
                      /\ refined' = Append(refined, source)
                      /\ pc' = "convert"
                      /\ UNCHANGED exitCode
               ELSE /\ Exit(1)
                    /\ UNCHANGED <<cur, refined>>
    /\ UNCHANGED <<config, fs, walkIdx, files, idx, proc, fail, info, new_br,
                   cmd, rc, report, results, disposalCalls, failedRuns>>

---------------------------------------------------------------------------
(* refine_recursively: the enumeration, then the loop over the candidates. *)

\* variant: the suffix looked for at the end of the name, extension included
NameEndsWithSuffix(path) == EndsWith(path, SUFFIX)

\* path.stem.endswith(SUFFIX)
IsOwnOutput(path) == EndsWith(Stem(path), SUFFIX)

\* one iteration of `for path in directory.rglob("*")`; after the last one,
\* total = len(files) and the loop over the candidates starts
Walk ==
    /\ pc = "walk"
    /\ IF walkIdx > Len(tree)
         THEN /\ pc' = "loop"
              /\ UNCHANGED <<walkIdx, files, executed, dryLog>>
       ELSE LET path == tree[walkIdx]
            IN  /\ walkIdx' = walkIdx + 1
                /\ pc' = "walk"
                /\ IF IsOwnOutput(path)
                     THEN UNCHANGED <<files, executed, dryLog>>
                   ELSE /\ executed' = ClassifyRan(path)
                        /\ dryLog' = ClassifyLogged(path)
                        /\ files' =
                             IF is_video_file(path)
                               THEN Append(files, [path |-> path, kind |-> "video"])
                             ELSE IF is_image_file(path)
                               THEN Append(files, [path |-> path, kind |-> "image"])
                             ELSE files
    /\ UNCHANGED <<config, fs, idx, proc, fail, locals, exitCode, results,
                   refined, disposalCalls, failedRuns>>

\* the head of `for idx, (path, kind) in enumerate(files, 1)`, and what
\* follows the loop: the summary and, outside dry-run, the notification
Loop ==
    /\ pc = "loop"
    /\ IF idx > Len(files)
         THEN /\ executed' = IF ~DRY_RUN
                               THEN executed \cup {<<"osascript-notify", DIR>>}
                               ELSE executed
              /\ Exit(0)
              /\ UNCHANGED <<locals, refined, failedRuns>>
       ELSE /\ cur' = files[idx]
            /\ info' = NoInfo
            /\ new_br' = 0
            /\ cmd' = NoCommand
            /\ rc' = 0
            /\ report' = <<0, 0>>
            /\ failedRuns' = {}
            /\ refined' = Append(refined, files[idx].path)
            /\ pc' = IF files[idx].kind = "video" THEN "probe" ELSE "convert"
            /\ UNCHANGED <<executed, exitCode>>
    /\ UNCHANGED <<config, fs, walkIdx, files, idx, proc, fail, results,
                   disposalCalls, dryLog>>

\* variant: the failure counted in the wrong branch
FailedAfterMiscounted(ok) == IF ok THEN fail + 1 ELSE fail

\* fail += 1 in the else branch of `if ok`
FailedAfter(ok) == IF ok THEN fail ELSE fail + 1

\* process_* returns `ok`: in the walk the loop body counts it and goes on
\* to the next candidate; in single-file mode main returns 0
Return(ok) ==
    /\ results' = Append(results, ok)
    /\ IF source = DIR
         THEN /\ fail' = FailedAfter(ok)
              /\ proc' = proc + 1
              /\ idx' = idx + 1
              /\ pc' = "loop"
              /\ UNCHANGED exitCode
       ELSE /\ Exit(0)
            /\ UNCHANGED <<fail, proc, idx>>
    /\ UNCHANGED <<cur, info, new_br, cmd, rc>>


---------------------------------------------------------------------------
(* process_video. *)

\* what ffprobe can answer: failure, or the stream's figures
ProbeOutcomes ==
    {[rc |-> 1, w |-> 0, h |-> 0, durN |-> 0, durD |-> 1, br |-> 0],
     [rc |-> 0, w |-> 1920, h |-> 1080, durN |-> 10, durD |-> 1, br |-> 5000000]}

\* get_video_info: all zeroes when ffprobe fails
VideoInfo(o, path) ==
    IF o.rc # 0
        THEN NoInfo
        ELSE [w |-> o.w, h |-> o.h, durN |-> o.durN, durD |-> o.durD,
              br |-> o.br, sz |-> fs[path]]

\* get_video_info, calculate_optimal_bitrate and build_ffmpeg_command.
\* Under dry-run run_command hands json.loads an empty string, which raises
\* and ends the process; an invalid codec ends it with sys.exit(1).
GetVideoInfo ==
    /\ pc = "probe"
    /\ executed' = Ran("ffprobe", cur.path)
    /\ dryLog' = Logged("ffprobe", cur.path)
    /\ IF ~RunsForReal
         THEN /\ Exit(1)
              /\ UNCHANGED <<info, new_br, cmd, failedRuns>>
       ELSE \E o \in ProbeOutcomes :
              LET i  == VideoInfo(o, cur.path)
                  b  == calculate_optimal_bitrate(i.w, i.h, i.br, i.sz, i.durN, i.durD)
                  c  == build_ffmpeg_command(cur.path, codec, fmt, b)
              IN  /\ failedRuns' = IF o.rc # 0
                                      THEN failedRuns \cup {<<"ffprobe", cur.path>>}
                                      ELSE failedRuns
                  /\ info' = i
                  /\ new_br' = b
                  /\ cmd' = c
                  /\ IF c.ok
                       THEN pc' = "encode" /\ UNCHANGED exitCode
                       ELSE Exit(1)
    /\ UNCHANGED <<config, fs, walkIdx, files, idx, proc, fail, cur, rc, report,
                   results, refined, disposalCalls>>

\* what an encoder or converter run can leave at the output path: nothing
\* new, an empty file, or a file with data
OutputEffects == {"none", "empty", "data"}

Written(effect, src, out) ==
    CASE effect = "none"  -> fs
      [] effect = "empty" -> [fs EXCEPT ![out] = 0]
      [] effect = "data"  -> [fs EXCEPT ![out] = fs[src] \div 2]

\* res = run_command(cmd) for the command c
RunCommand(c) ==
    /\ executed' = Ran(c.tool, c.src)
    /\ dryLog' = Logged(c.tool, c.src)
    /\ IF RunsForReal
         THEN \E r \in {0, 1}, e \in OutputEffects :
                /\ rc' = r
                /\ failedRuns' = IF r # 0
                                    THEN failedRuns \cup {<<c.tool, c.src>>}
                                    ELSE failedRuns
                /\ fs' = Written(e, c.src, c.out)
         ELSE /\ rc' = 0
              /\ UNCHANGED <<fs, failedRuns>>
    /\ pc' = "verify"

RunEncoder ==
    /\ pc = "encode"
    /\ RunCommand(cmd)
    /\ UNCHANGED <<config, walkIdx, files, idx, proc, fail, cur, info, new_br,
                   cmd, report, exitCode, results, refined, disposalCalls>>

---------------------------------------------------------------------------
(* process_image. *)

RunSips ==
    /\ pc = "convert"
    /\ cmd' = SipsCommand(cur.path)
    /\ RunCommand(SipsCommand(cur.path))
    /\ UNCHANGED <<config, walkIdx, files, idx, proc, fail, cur, info, new_br,
                   report, exitCode, results, refined, disposalCalls>>

---------------------------------------------------------------------------
(* The checks after the run, shared by process_video and process_image. *)

\* variant: the return code not looked at
EncoderFailedNever(r) == FALSE

\* res.returncode != 0
EncoderFailed(r) == r # 0

\* variant: the size of the output not looked at
OutputMissingOnly(out) == ~IsFile(out)

\* not out.is_file() or out.stat().st_size == 0
OutputMissing(out) == ~IsFile(out) \/ fs[out] = 0

\* int(orig_sz * 0.7) for a video, int(orig_sz * 0.5) for an image
EstimatedSize(kind, orig_sz) ==
    IF kind = "video" THEN (orig_sz * 7) \div 10 ELSE (orig_sz * 5) \div 10

Verify ==
    /\ pc = "verify"
    /\ IF EncoderFailed(rc) /\ ~DRY_RUN
         THEN Return(FALSE) /\ UNCHANGED report
       ELSE IF ~DRY_RUN /\ OutputMissing(cmd.out)
         THEN Return(FALSE) /\ UNCHANGED report
       ELSE /\ report' = <<fs[cur.path],
                           IF ~DRY_RUN THEN fs[cmd.out]
                                       ELSE EstimatedSize(cur.kind, fs[cur.path])>>
            /\ IF TRASH_MODE
                 THEN /\ pc' = "trash"
                      /\ UNCHANGED <<cur, info, new_br, cmd, rc, exitCode,
                                     results, fail, proc, idx>>
                 ELSE Return(TRUE)
    /\ UNCHANGED <<config, fs, walkIdx, files, refined, disposalCalls,
                   executed, failedRuns, dryLog>>

---------------------------------------------------------------------------
(* move_to_trash, and the `return True` that follows it. *)

MoveToTrash ==
    /\ pc = "trash"
    /\ disposalCalls' = disposalCalls \cup {cur.path}
    /\ IF DRY_RUN
         THEN /\ dryLog' = dryLog \cup {<<"trash", cur.path>>}
              /\ UNCHANGED <<fs, executed, failedRuns>>
       ELSE IF ~Exists(cur.path)
         THEN UNCHANGED <<fs, executed, failedRuns, dryLog>>
       ELSE /\ executed' = Ran("osascript-trash", cur.path)
            /\ dryLog' = Logged("osascript-trash", cur.path)
            /\ IF RunsForReal
                 THEN \E r \in {0, 1} :
                        /\ fs' = IF r = 0 THEN [fs EXCEPT ![cur.path] = -1] ELSE fs
                        /\ failedRuns' =
                             IF r # 0
                               THEN failedRuns \cup {<<"osascript-trash", cur.path>>}
                               ELSE failedRuns
                 ELSE UNCHANGED <<fs, failedRuns>>
    /\ Return(TRUE)
    /\ UNCHANGED <<config, walkIdx, files, report, refined>>

---------------------------------------------------------------------------

Next ==
    \/ Main
    \/ Walk
    \/ Loop
    \/ GetVideoInfo
    \/ RunEncoder
    \/ RunSips
    \/ Verify
    \/ MoveToTrash

Spec == Init /\ [][Next]_vars


---------------------------------------------------------------------------
(* The planner on its own: calculate_optimal_bitrate and                   *)
(* build_ffmpeg_command applied to a range of probes and configurations.   *)

\* the largest source bitrate tried, in steps of 50,000 bps
MaxBitrateSteps == 6

\* the largest file size tried, in steps of 78,125 bytes
MaxSizeSteps == 6

Resolutions ==
    {<<0, 0>>, <<1280, 720>>, <<1281, 720>>, <<1920, 1080>>, <<1921, 1080>>,
     <<2560, 1440>>, <<3839, 2160>>, <<3840, 2160>>}

Bitrates == {k * 50000 : k \in 0..MaxBitrateSteps} \cup {1234567, 2500000, 9000000}

Sizes == {k * 78125 : k \in 0..MaxSizeSteps} \cup {50000000}

\* durations: unknown, 10 s and 12.5 s
Durations == {<<0, 1>>, <<10, 1>>, <<25, 2>>}

PlanInputs ==
    {[w |-> r[1], h |-> r[2], durN |-> d[1], durD |-> d[2], br |-> b, sz |-> s] :
        r \in Resolutions, d \in Durations, b \in Bitrates, s \in Sizes}

PlanInit ==
    /\ codec \in ValidCodecs \cup {"vp8"}
    /\ fmt \in {MOV, MP4, MKV, WEBM}
    /\ USE_GPU \in BOOLEAN
    /\ TRASH_MODE = FALSE
    /\ DRY_RUN = FALSE
    /\ SUFFIX \in Suffixes
    /\ tree = <<A_MOV>>
    /\ source = A_MOV
    /\ info \in PlanInputs
    /\ fs = [p \in Paths |-> IF p = A_MOV THEN info.sz ELSE -1]
    /\ pc = "plan"
    /\ cur = [path |-> A_MOV, kind |-> "video"]
    /\ Blank

\* new_br = calculate_optimal_bitrate(w, h, br, sz, dur)
PlanBitrate ==
    /\ pc = "plan"
    /\ new_br' = calculate_optimal_bitrate(info.w, info.h, info.br, info.sz,
                                           info.durN, info.durD)
    /\ pc' = "bitrate"
    /\ UNCHANGED <<config, fs, walkIdx, files, idx, proc, fail, cur, info, cmd,
                   rc, report, exitCode, results, refined, disposalCalls,
                   executed, failedRuns, dryLog>>

\* cmd, out = build_ffmpeg_command(src, codec, fmt, new_br)
PlanCommand ==
    /\ pc = "bitrate"
    /\ cmd' = build_ffmpeg_command(cur.path, codec, fmt, new_br)
    /\ IF cmd'.ok
         THEN pc' = "planned" /\ UNCHANGED exitCode
         ELSE Exit(1)
    /\ UNCHANGED <<config, fs, walkIdx, files, idx, proc, fail, cur, info,
                   new_br, rc, report, results, refined, disposalCalls,
                   executed, failedRuns, dryLog>>

PlanNext ==
    \/ PlanBitrate
    \/ PlanCommand

PlanSpec == PlanInit /\ [][PlanNext]_vars


---------------------------------------------------------------------------
(* Properties. *)

\* every process_* call made so far has returned, so that cur, rc and cmd
\* describe the file results ends with
LastReturned == Len(results) > 0 /\ Len(results) = Len(refined)

LastResult == results[Len(results)]

\* the output at the predicted path exists and is non-empty
OutputPresent == fs[cmd.out] > 0

\* C1: outside dry-run the original is handed to move_to_trash only with
\* trashOriginals set, after its own encoder/converter returned 0 and with a
\* non-empty output at the predicted path; a file whose encoder failed or
\* whose output is missing or empty is reported as failed and never handed
\* to disposal; every path handed to disposal is one whose refinement
\* reported success.
C1_DisposalOnlyAfterSuccess ==
    ~DRY_RUN =>
        /\ pc = "trash" => TRASH_MODE /\ rc = 0 /\ OutputPresent
        /\ cur.path \in disposalCalls => TRASH_MODE /\ rc = 0 /\ OutputPresent
        /\ LastReturned /\ (rc # 0 \/ ~OutputPresent) =>
               ~LastResult /\ cur.path \notin disposalCalls
        /\ disposalCalls \subseteq
               {refined[i] : i \in {j \in 1..Len(results) : results[j]}}
        /\ ~TRASH_MODE => disposalCalls = {}

\* a walk with trashing on in which one file was disposed of after its
\* success and the last file's encoder failed and its original was kept
C1_Witness ==
    /\ ~DRY_RUN /\ TRASH_MODE /\ source = DIR
    /\ disposalCalls # {}
    /\ LastReturned /\ rc # 0 /\ ~LastResult
    /\ cur.path \notin disposalCalls /\ Exists(cur.path)

\* C2: in directory mode the candidates are processed once each, in
\* enumeration order; processedCount counts the processed files and
\* failedCount those whose refinement returned failure; a walk that runs to
\* its summary has processed every candidate, and the only thing that ends a
\* walk early is the fatal codec error, never a file's failure.
C2_WalkCountsEveryCandidate ==
    source = DIR =>
        /\ Len(refined) <= Len(files)
        /\ \A i \in 1..Len(refined) : refined[i] = files[i].path
        /\ proc = Len(results)
        /\ fail = Cardinality({i \in 1..Len(results) : ~results[i]})
        /\ pc = "exit" /\ exitCode = 0 =>
               proc = Len(files) /\ Len(refined) = Len(files)
        /\ pc = "exit" /\ exitCode # 0 => codec \notin ValidCodecs
        /\ pc = "loop" => Len(results) = Len(refined) /\ idx = proc + 1

\* three videos, the second encode failing: processed 3, failed 1
C2_Witness ==
    /\ source = DIR /\ pc = "exit" /\ exitCode = 0
    /\ Len(files) = 3
    /\ \A i \in 1..3 : files[i].kind = "video"
    /\ results = <<TRUE, FALSE, TRUE>>
    /\ proc = 3 /\ fail = 1

\* what the classification gives a path when `file` is really run
WouldBeCandidate(path) ==
    /\ ~EndsWith(Stem(path), SUFFIX)
    /\ Exists(path) /\ path # SUB
    /\ MimeType(path)[1] \in {"video", "image"}

\* C3: a dry run still classifies and counts every media file that a real
\* run would process, and reports the fixed estimate (70% of the original
\* for a video, 50% for an image) for it.
C3_DryRunCountsCandidates ==
    DRY_RUN /\ pc = "exit" =>
        /\ source = DIR =>
               proc = Cardinality({i \in 1..Len(tree) : WouldBeCandidate(tree[i])})
        /\ source # DIR /\ Exists(source) /\ MimeType(source)[1] = "video" =>
               /\ exitCode = 0
               /\ report = <<fs[source], (fs[source] * 7) \div 10>>
        /\ source # DIR /\ Exists(source) /\ MimeType(source)[1] = "image" =>
               /\ exitCode = 0
               /\ report = <<fs[source], (fs[source] * 5) \div 10>>

\* C4: under dry-run nothing is executed (no file, ffprobe, ffmpeg, sips or
\* osascript process, so no disposal and no notification) and the file
\* system stays as the run found it.
C4_DryRunHasNoSideEffects ==
    DRY_RUN => executed = {} /\ fs = InitialFs(tree) /\ failedRuns = {}

\* a finished dry-run walk with trashing on over a directory with a video,
\* whose commands were logged instead of run
C4_Witness ==
    /\ DRY_RUN /\ TRASH_MODE /\ source = DIR /\ pc = "exit"
    /\ A_MOV \in Range(tree)
    /\ <<"file", A_MOV>> \in dryLog

\* C5 as claimed: no path whose stem ends with the suffix is ever handed to
\* process_video or process_image, in a walk or in a single-file run.
C5_OwnOutputNeverRefined ==
    \A i \in 1..Len(refined) : ~EndsWith(Stem(refined[i]), SUFFIX)

\* C5 as amended: in a directory walk no path whose stem ends with the
\* suffix is in the candidate list or handed to refinement.
C5_WalkExcludesOwnOutput ==
    source = DIR =>
        /\ \A i \in 1..Len(files) : ~EndsWith(Stem(files[i].path), SUFFIX)
        /\ \A i \in 1..Len(refined) : ~EndsWith(Stem(refined[i]), SUFFIX)

\* a finished walk over a directory holding a-re.mov, an output of an
\* earlier pass, next to the video a.mov, which was refined
C5_Witness ==
    /\ source = DIR /\ pc = "exit" /\ exitCode = 0
    /\ A_RE_MOV \in Range(tree) /\ A_MOV \in Range(tree)
    /\ SUFFIX = <<"-", "r", "e">>
    /\ refined = <<A_MOV>>

\* C6: with an invalid codec the run aborts before any file is refined: when
\* it ends with its non-zero status no encoder or converter has been run,
\* nothing has been handed to disposal, no process_* call has returned and
\* no failure has been counted.
C6_InvalidCodecAbortsFirst ==
    codec \notin ValidCodecs /\ pc = "exit" /\ exitCode # 0 =>
        /\ \A e \in executed : e[1] \notin {"ffmpeg", "sips", "osascript-trash"}
        /\ disposalCalls = {}
        /\ results = <<>>
        /\ fail = 0

\* C10 as claimed: in a walk a probe failure, an encoder failure, a missing
\* or empty output or a disposal failure makes the file's refinement return
\* failure, and the file is counted in failedCount.
C10_EveryErrorFailsTheFile ==
    ~DRY_RUN /\ source = DIR /\ LastReturned =>
        (failedRuns # {} \/ ~OutputPresent => ~LastResult /\ fail > 0)

\* C10 as amended: outside dry-run a file's refinement returns failure
\* exactly when its encoder/converter returned non-zero or the output is
\* missing or empty, and the walk goes on to the next file or to its
\* summary; a failed probe or a failed disposal does not fail the file.
C10_OnlyEncodeErrorsFailTheFile ==
    ~DRY_RUN /\ LastReturned =>
        /\ ~LastResult <=> (rc # 0 \/ ~OutputPresent)
        /\ source = DIR => pc = "loop" \/ (pc = "exit" /\ exitCode = 0)

\* a file of a walk whose probe failed and whose disposal failed, counted
\* as succeeded
C10_Witness ==
    /\ ~DRY_RUN /\ source = DIR /\ LastReturned /\ pc = "loop"
    /\ <<"ffprobe", cur.path>> \in failedRuns
    /\ <<"osascript-trash", cur.path>> \in failedRuns
    /\ LastResult /\ fail = 0 /\ Exists(cur.path)


---------------------------------------------------------------------------
(* Properties of the planner. *)

\* the raw target of the probe under plan
PlanRaw == RawTarget(info.w, info.h, info.br, info.sz, info.durN, info.durD)

Distance(a, b) == IF a >= b THEN a - b ELSE b - a

\* C7: the bitrate returned is at least 100,000 and a multiple of 100,000; a
\* raw target below 100,000 gives 100,000, and any other raw target gives a
\* multiple of 100,000 that no other multiple is nearer to.
C7_FlooredAndQuantized ==
    pc # "plan" =>
        /\ new_br >= 100000
        /\ new_br % 100000 = 0
        /\ PlanRaw < 100000 => new_br = 100000
        /\ PlanRaw >= 100000 => 2 * Distance(new_br, PlanRaw) <= 100000

\* a raw target between 0 and the floor has been raised to 100,000
C7_Witness ==
    /\ pc = "bitrate"
    /\ 0 < PlanRaw /\ PlanRaw < 100000
    /\ new_br = 100000

\* the tier ceilings as the claim states them
ClaimedCeiling(p) ==
    IF p >= 8294400 THEN 6000000
    ELSE IF p > 2073600 /\ p < 8294400 THEN 4000000
    ELSE IF p > 921600 /\ p <= 2073600 THEN 2500000
    ELSE 1200000

\* C8 as claimed: with currentBitrate 0 the result is the tier ceiling of the
\* resolution, whatever the size and the duration.
C8_ZeroBitrateGivesCeiling ==
    pc # "plan" /\ info.br = 0 => new_br = ClaimedCeiling(info.w * info.h)

\* the size-derived target int(int(size * 8 / dur) * 0.8) applies: the
\* duration is positive and the target lies strictly between 0 and the ceiling
SizeTargetApplies ==
    /\ info.durN > 0
    /\ 0 < SizeTarget(info.sz, info.durN, info.durD)
    /\ SizeTarget(info.sz, info.durN, info.durD) < ClaimedCeiling(info.w * info.h)

\* C8 as amended: with currentBitrate 0 the result is the tier ceiling of the
\* resolution unless the size-derived target applies, and is never above the
\* ceiling.
C8_ZeroBitrateGivesCeilingUnlessSmaller ==
    pc # "plan" /\ info.br = 0 =>
        /\ ~SizeTargetApplies => new_br = ClaimedCeiling(info.w * info.h)
        /\ new_br <= ClaimedCeiling(info.w * info.h)

\* 3840x2160 with no source bitrate and a large file: 6,000,000
C8_Witness ==
    /\ pc = "bitrate" /\ info.br = 0
    /\ info.w = 3840 /\ info.h = 2160
    /\ info.durN > 0 /\ info.sz = 50000000
    /\ new_br = 6000000

\* C9: for H264 and HEVC outside WEBM the options follow the acceleration
\* mode: with it on, the hardware encoder at the target bitrate; with it off,
\* a software encoder whose options are the same for every target bitrate.
\* AV1 uses the constant-quality software encoder in both modes.
C9_OptionsFollowAcceleration ==
    pc = "planned" =>
        /\ codec \in {"h264", "hevc"} /\ fmt # WEBM /\ USE_GPU =>
               /\ cmd.vopt[2] \in {"h264_videotoolbox", "hevc_videotoolbox"}
               /\ cmd.vopt[4] = ToString(new_br \div 1024) \o "k"
        /\ codec \in {"h264", "hevc"} /\ fmt # WEBM /\ ~USE_GPU =>
               /\ cmd.vopt[2] \notin {"h264_videotoolbox", "hevc_videotoolbox"}
               /\ \A b \in Bitrates : VideoOptions(codec, fmt, b) = cmd.vopt
        /\ codec = "av1" =>
               /\ cmd.vopt[2] = "libaom-av1"
               /\ SubSeq(cmd.vopt, 3, 6) = <<"-crf", "30", "-b:v", "0">>

=============================================================================
